---- MODULE Spec2Model ----
(***************************************************************************)
(* Model of roles/mac/mas/library/mas.py: the Mas engine that reconciles a *)
(* batch of Mac App Store application identifiers to the desired state     *)
(* `present` or `latest` through the external `mas` executable.            *)
(*                                                                         *)
(* Text (identifiers, command output, messages) is a sequence of one-      *)
(* character strings; a message built by str.format is the concatenation   *)
(* of its literal part and the formatted value.  A Python value that may   *)
(* be None is a sequence of length 0 (None) or 1 (the value).              *)
(***************************************************************************)
EXTENDS Integers, Sequences, FiniteSets, TLC

\* ---------------------------------------------------------------- bounds
MaxBatch  == 3      \* longest batch of identifiers handed to the engine
MaxOutLen == 2      \* longest stdout text of `mas list` / `mas outdated`
MaxErrLen == 2      \* longest stderr text of `mas install`
MaxRuns   == 2      \* module invocations in a row (SpecIdem only)
MaxIdemBatch == 1   \* longest batch of a repeated invocation (SpecIdem only)
MaxArgLen == 3      \* longest string handed to valid_package (SpecValid only)

AllStrings(chars, n) == UNION {[1..k -> chars] : k \in 0..n}

OutChars == {"1", "\n"}
ErrChars == {"e", " "}

\* identifiers: empty, numeric, numeric containing another, not numeric
PkgIds     == {<<>>, <<"1">>, <<"1", "1">>, <<"a">>, <<"1", "a">>}
Outputs    == AllStrings(OutChars, MaxOutLen)
ErrTexts   == AllStrings(ErrChars, MaxErrLen)
\* arguments of a direct call of valid_package: digits, a letter, a dash
ArgChars   == {"0", "7", "a", "-"}
Batches    == UNION {[1..k -> PkgIds] : k \in 1..MaxBatch}
\* what get_bin_path can hand back: nothing, a clean path, a path with `;`
BinPaths   == {<<>>, << <<"/", "m", "a", "s">> >>, << <<"/", "m", ";">> >>}

None    == <<>>
Some(v) == <<v>>

\* ------------------------------------------------------- pure functions
DigitChars == {"0", "1", "2", "3", "4", "5", "6", "7", "8", "9"}
WordChars  == DigitChars \cup {"a", "m", "s", "e", "_"}
SpaceChars == {" ", "\n", "\t"}

\* variant: re.match instead of re.search, only the first character counts
INVALID_PACKAGE_REGEX_Match(s) == s # <<>> /\ s[1] \notin DigitChars

\* INVALID_PACKAGE_REGEX = [^\d] ; search finds a character outside \d
INVALID_PACKAGE_REGEX(s) == \E k \in 1..Len(s) : s[k] \notin DigitChars

\* INVALID_MAS_PATH_REGEX = [^\w\s/.-]
INVALID_MAS_PATH_REGEX(s) ==
    \E k \in 1..Len(s) : s[k] \notin (WordChars \cup SpaceChars \cup {"/", ".", "-"})

\* variant: the identifier class is \w instead of \d
valid_package_WordClass(package) ==
    IF package = None THEN TRUE
    ELSE \A k \in 1..Len(package[1]) : package[1][k] \in WordChars

valid_package(package) ==
    IF package = None THEN TRUE ELSE ~INVALID_PACKAGE_REGEX(package[1])

\* variant: the path is stored without looking at its characters
valid_mas_path_AnyString(mas_path) == TRUE

valid_mas_path(mas_path) ==
    IF mas_path = None THEN TRUE ELSE ~INVALID_MAS_PATH_REGEX(mas_path[1])

\* str.split('\n'): the pieces between newlines; '' splits to ['']
RECURSIVE SplitFrom(_, _, _)
SplitFrom(s, k, cur) ==
    IF k > Len(s) THEN <<cur>>
    ELSE IF s[k] = "\n" THEN <<cur>> \o SplitFrom(s, k + 1, <<>>)
    ELSE SplitFrom(s, k + 1, Append(cur, s[k]))

Split(s) == SplitFrom(s, 1, <<>>)

\* variant: an empty needle is never found
Find_NonEmptyOnly(line, sub) ==
    /\ sub # <<>>
    /\ \E k \in 0..(Len(line) - Len(sub)) : SubSeq(line, k + 1, k + Len(sub)) = sub

\* line.find(sub) != -1
Find(line, sub) ==
    \E k \in 0..(Len(line) - Len(sub)) : SubSeq(line, k + 1, k + Len(sub)) = sub

\* for line in out.split('\n'): if line.find(pkg) != -1: return True
OutputMentions(out, pkg) ==
    \E j \in 1..Len(Split(out)) : Find(Split(out)[j], pkg)

\* str.strip(): drop leading and trailing whitespace
RECURSIVE LStrip(_)
LStrip(s) ==
    IF s # <<>> /\ s[1] \in SpaceChars THEN LStrip(Tail(s)) ELSE s

RECURSIVE RStrip(_)
RStrip(s) ==
    IF s # <<>> /\ s[Len(s)] \in SpaceChars
    THEN RStrip(SubSeq(s, 1, Len(s) - 1)) ELSE s

Strip(s) == RStrip(LStrip(s))

\* "%d" of a non-negative integer
DigitOf(d) == CASE d = 0 -> "0" [] d = 1 -> "1" [] d = 2 -> "2" [] d = 3 -> "3"
                [] d = 4 -> "4" [] d = 5 -> "5" [] d = 6 -> "6" [] d = 7 -> "7"
                [] d = 8 -> "8" [] d = 9 -> "9"

RECURSIVE FormatInt(_)
FormatInt(n) ==
    IF n < 10 THEN <<DigitOf(n)>> ELSE FormatInt(n \div 10) \o <<DigitOf(n % 10)>>

\* ------------------------------------------------------------- messages
\* '{0}'.format(v) of a value that may be None
FormatOpt(v)            == IF v = None THEN <<"None">> ELSE v[1]
MsgInvalidPackage(p)    == <<"Invalid package: ">> \o p \o <<".">>
MsgInvalidMasPath(p)    == <<"Invalid mas_path: ">> \o p \o <<".">>
MsgNoMas                == <<"Unable to locate mas executable.">>
MsgAlreadyInstalled(p)  == <<"Package already installed: ">> \o p
MsgWouldInstall(p)      == <<"Package would be installed: ">> \o p
MsgInstalled(p)         == <<"Package installed: ">> \o p
MsgAlreadyUpgraded(p)   == <<"Package is already upgraded: ">> \o p
MsgWouldUpgrade(p)      == <<"Package would be upgraded: ">> \o p
MsgUpgraded(p)          == <<"Package upgraded: ">> \o p
MsgAggregate(c, u)      ==
    <<"Changed: ">> \o FormatInt(c) \o <<", Unchanged: ">> \o FormatInt(u)

\* variant: the summary needs more than two packages
AggregateApplies_MoreThanTwo(f, c, u) == ~f /\ (c + u > 2)

\* variant: the summary already replaces the message of a single package
AggregateApplies_AtLeastOne(f, c, u) == ~f /\ (c + u >= 1)

\* run(): the condition under which the summary replaces the message
AggregateApplies(f, c, u) == ~f /\ (c + u > 1)

\* ---------------------------------------------------------------- state
VARIABLES
    packages, state, check_mode,   \* constructor arguments / module flags
    mas_path, current_package,     \* validated properties
    failed, changed, changed_count, unchanged_count, message,
    pc,                            \* position of the control flow
    idx,                           \* packages taken from the batch so far
    listed,                        \* result of the list query of the `and`
    rc, err,                       \* locals of the install call
    cmds,                          \* commands handed to run_command
    outcomes,                      \* how each package's step ended
    result,                        \* triple returned by run()
    inv,                           \* number of the module invocation
    prev,                          \* triple returned by the previous one
    fake_list,                     \* pinned stdout of `mas list`, if any
    arg, ret                       \* a direct call of valid_package

inputs == <<packages, state, check_mode>>
status == <<failed, changed, changed_count, unchanged_count, message>>
locals == <<listed, rc, err>>
hist   == <<inv, prev>>
seen   == <<fake_list>>
probe  == <<arg, ret>>
vars   == <<probe, inputs, mas_path, current_package, status, pc, idx, locals,
            cmds, outcomes, result, hist, seen>>

\* one run_command call: the subcommand, the arguments after it, whether
\* its stdout was found to mention the current package (queries only), and
\* the batch position and invocation on whose behalf it is issued
Cmd(c, args, hit) ==
    [cmd |-> c, args |-> args, hit |-> hit, pos |-> idx, inv |-> inv]

Truthy(opt) == opt # None /\ opt[1] # <<>>

\* _setup_status_vars
SetupStatusVars ==
    [failed |-> FALSE, changed |-> FALSE, changed_count |-> 0,
     unchanged_count |-> 0, message |-> <<>>]

Fresh ==
    /\ failed = SetupStatusVars.failed
    /\ changed = SetupStatusVars.changed
    /\ changed_count = SetupStatusVars.changed_count
    /\ unchanged_count = SetupStatusVars.unchanged_count
    /\ message = SetupStatusVars.message
    /\ mas_path = None /\ current_package = None
    /\ pc = "prep" /\ idx = 0
    /\ listed = FALSE /\ rc = 0 /\ err = <<>>
    /\ outcomes = <<>> /\ result = None
    /\ arg = None /\ ret = None

Init ==
    /\ packages \in Batches
    /\ state \in {"present", "latest"}
    /\ check_mode \in BOOLEAN
    /\ Fresh
    /\ cmds = <<>>
    /\ inv = 1 /\ prev = None
    /\ fake_list = None

\* --------------------------------------------------------------- actions
\* __init__ -> _prep -> _prep_mas_path, with the mas_path setter inlined.
\* An exception leaves the constructor and main() does not catch it.
PrepMasPath ==
    /\ pc = "prep"
    /\ \E path \in BinPaths :
         IF ~valid_mas_path(path)
         THEN /\ mas_path' = None
              /\ failed' = TRUE
              /\ message' = MsgInvalidMasPath(path[1])
              /\ pc' = "raised"
         ELSE IF ~Truthy(path)
         THEN /\ mas_path' = None
              /\ failed' = TRUE
              /\ message' = MsgNoMas
              /\ pc' = "raised"
         ELSE /\ mas_path' = path
              /\ pc' = "run"
              /\ UNCHANGED <<failed, message>>
    /\ UNCHANGED <<probe, inputs, current_package, changed, changed_count,
                   unchanged_count, idx, locals, cmds, outcomes, result,
                   hist, seen>>

\* run() -> _run(): dispatch on the desired state
Run ==
    /\ pc = "run"
    /\ pc' = IF packages # <<>> /\ state \in {"present", "latest"}
             THEN "loop" ELSE "finish"
    /\ UNCHANGED <<probe, inputs, mas_path, current_package, status, idx, locals,
                   cmds, outcomes, result, hist, seen>>

\* _install_packages / _upgrade_packages: the for loop takes the next
\* package and assigns it through the current_package setter; the step's
\* own validity test (first statement of _install_current_package and of
\* _upgrade_current_package) follows at once.
\* variant: the batch is walked from its last entry to its first
NextPackage_Reversed ==
    /\ pc = "loop"
    /\ IF idx = Len(packages)
       THEN /\ pc' = "finish"
            /\ UNCHANGED <<current_package, failed, message, idx, outcomes>>
       ELSE LET package == packages[Len(packages) - idx] IN
            /\ idx' = idx + 1
            /\ IF ~valid_package(Some(package))
               THEN /\ current_package' = None
                    /\ failed' = TRUE
                    /\ message' = MsgInvalidPackage(package)
                    /\ outcomes' = Append(outcomes, "Fatal")
                    /\ pc' = "finish"
               ELSE /\ current_package' = Some(package)
                    /\ pc' = "check"
                    /\ UNCHANGED <<failed, message, outcomes>>
    /\ listed' = FALSE /\ rc' = 0 /\ err' = <<>>
    /\ UNCHANGED <<probe, inputs, mas_path, changed, changed_count, unchanged_count,
                   cmds, result, hist, seen>>

NextPackage ==
    /\ pc = "loop"
    /\ IF idx = Len(packages)
       THEN /\ pc' = "finish"
            /\ UNCHANGED <<current_package, failed, message, idx, outcomes>>
       ELSE LET package == packages[idx + 1] IN
            /\ idx' = idx + 1
            /\ IF ~valid_package(Some(package))
               THEN /\ current_package' = None
                    /\ failed' = TRUE
                    /\ message' = MsgInvalidPackage(package)
                    /\ outcomes' = Append(outcomes, "Fatal")
                    /\ pc' = "finish"
               ELSE /\ current_package' = Some(package)
                    /\ pc' = "check"
                    /\ UNCHANGED <<failed, message, outcomes>>
    /\ listed' = FALSE /\ rc' = 0 /\ err' = <<>>
    /\ UNCHANGED <<probe, inputs, mas_path, changed, changed_count, unchanged_count,
                   cmds, result, hist, seen>>

\* what run_command can return as stdout of `mas list`: anything, or the
\* one pinned text when the host's list is held fixed
ListOutputs == IF fake_list = None THEN Outputs ELSE {fake_list[1]}

\* variant: an already satisfied package is not counted
EndUnchanged_NoCount ==
    /\ message' = IF state = "present"
                  THEN MsgAlreadyInstalled(current_package[1])
                  ELSE MsgAlreadyUpgraded(current_package[1])
    /\ outcomes' = Append(outcomes, "UnchangedOK")
    /\ pc' = "loop"
    /\ UNCHANGED <<failed, changed, changed_count, unchanged_count>>

\* variant: an already satisfied package is reported as a change
EndUnchanged_MarksChanged ==
    /\ unchanged_count' = unchanged_count + 1
    /\ changed' = TRUE
    /\ message' = IF state = "present"
                  THEN MsgAlreadyInstalled(current_package[1])
                  ELSE MsgAlreadyUpgraded(current_package[1])
    /\ outcomes' = Append(outcomes, "UnchangedOK")
    /\ pc' = "loop"
    /\ UNCHANGED <<failed, changed_count>>

\* the package already satisfies the desired state
EndUnchanged ==
    /\ unchanged_count' = unchanged_count + 1
    /\ message' = IF state = "present"
                  THEN MsgAlreadyInstalled(current_package[1])
                  ELSE MsgAlreadyUpgraded(current_package[1])
    /\ outcomes' = Append(outcomes, "UnchangedOK")
    /\ pc' = "loop"
    /\ UNCHANGED <<failed, changed, changed_count>>

\* variant: the check_mode test is missing
NeedsChange_IgnoresCheckMode ==
    /\ pc' = "install"
    /\ UNCHANGED <<status, outcomes>>

\* variant: the dry-run signal does not leave the loop
NeedsChange_DryRunGoesOn ==
    IF check_mode
    THEN /\ changed' = TRUE
         /\ message' = IF state = "present"
                       THEN MsgWouldInstall(current_package[1])
                       ELSE MsgWouldUpgrade(current_package[1])
         /\ outcomes' = Append(outcomes, "WouldChange")
         /\ pc' = "loop"
         /\ UNCHANGED <<failed, changed_count, unchanged_count>>
    ELSE /\ pc' = "install"
         /\ UNCHANGED <<status, outcomes>>

\* the package needs a change: dry-run raises, otherwise go on to install
NeedsChange ==
    IF check_mode
    THEN /\ changed' = TRUE
         /\ message' = IF state = "present"
                       THEN MsgWouldInstall(current_package[1])
                       ELSE MsgWouldUpgrade(current_package[1])
         /\ outcomes' = Append(outcomes, "WouldChange")
         /\ pc' = "finish"
         /\ UNCHANGED <<failed, changed_count, unchanged_count>>
    ELSE /\ pc' = "install"
         /\ UNCHANGED <<status, outcomes>>

\* variant: the count grows but the changed flag is not set
EndChanged_ForgetsFlag ==
    /\ changed_count' = changed_count + 1
    /\ message' = IF state = "present"
                  THEN MsgInstalled(current_package[1])
                  ELSE MsgUpgraded(current_package[1])
    /\ outcomes' = Append(outcomes, "ChangedOK")
    /\ pc' = "loop"
    /\ UNCHANGED <<failed, changed, unchanged_count>>

\* the re-query after the install found the desired state
EndChanged ==
    /\ changed_count' = changed_count + 1
    /\ changed' = TRUE
    /\ message' = IF state = "present"
                  THEN MsgInstalled(current_package[1])
                  ELSE MsgUpgraded(current_package[1])
    /\ outcomes' = Append(outcomes, "ChangedOK")
    /\ pc' = "loop"
    /\ UNCHANGED <<failed, unchanged_count>>

\* variant: a failed verification is answered by one more install
EndFailed_RetriesOnce ==
    IF Cardinality({j \in 1..Len(cmds) : /\ cmds[j].cmd = "install"
                                         /\ cmds[j].pos = idx
                                         /\ cmds[j].inv = inv}) < 2
    THEN /\ pc' = "install"
         /\ UNCHANGED <<status, outcomes>>
    ELSE /\ failed' = TRUE
         /\ message' = Strip(err)
         /\ outcomes' = Append(outcomes, "Fatal")
         /\ pc' = "finish"
         /\ UNCHANGED <<changed, changed_count, unchanged_count>>

\* variant: the failure is recorded but the loop goes on
EndFailed_GoesOn ==
    /\ failed' = TRUE
    /\ message' = Strip(err)
    /\ outcomes' = Append(outcomes, "Fatal")
    /\ pc' = "loop"
    /\ UNCHANGED <<changed, changed_count, unchanged_count>>

\* the re-query after the install did not find the desired state
EndFailed ==
    /\ failed' = TRUE
    /\ message' = Strip(err)
    /\ outcomes' = Append(outcomes, "Fatal")
    /\ pc' = "finish"
    /\ UNCHANGED <<changed, changed_count, unchanged_count>>

\* _current_package_is_installed raising on an invalid current package
RaiseInvalid ==
    /\ failed' = TRUE
    /\ message' = MsgInvalidPackage(FormatOpt(current_package))
    /\ outcomes' = Append(outcomes, "Fatal")
    /\ pc' = "finish"
    /\ UNCHANGED <<changed, changed_count, unchanged_count>>

\* variant: the test of the list query is inverted
CheckInstalled_Inverted ==
    /\ pc = "check"
    /\ IF ~valid_package(current_package) \/ current_package = None
       THEN RaiseInvalid /\ UNCHANGED <<cmds, listed>>
       ELSE \E out \in ListOutputs :
            LET r == OutputMentions(out, current_package[1]) IN
            /\ cmds' = Append(cmds, Cmd("list", <<>>, r))
            /\ listed' = r
            /\ IF state = "latest" /\ r
               THEN pc' = "check_outdated" /\ UNCHANGED <<status, outcomes>>
               ELSE IF r THEN NeedsChange ELSE EndUnchanged
    /\ UNCHANGED <<probe, inputs, mas_path, current_package, idx, rc, err, result,
                   hist, seen>>

\* variant: `latest` is satisfied by the list query alone
CheckInstalled_ListOnly ==
    /\ pc = "check"
    /\ IF ~valid_package(current_package) \/ current_package = None
       THEN RaiseInvalid /\ UNCHANGED <<cmds, listed>>
       ELSE \E out \in ListOutputs :
            LET r == OutputMentions(out, current_package[1]) IN
            /\ cmds' = Append(cmds, Cmd("list", <<>>, r))
            /\ listed' = r
            /\ IF r THEN EndUnchanged ELSE NeedsChange
    /\ UNCHANGED <<probe, inputs, mas_path, current_package, idx, rc, err, result,
                   hist, seen>>

\* first _current_package_is_installed() of the step
CheckInstalled ==
    /\ pc = "check"
    /\ IF ~valid_package(current_package) \/ current_package = None
       THEN RaiseInvalid /\ UNCHANGED <<cmds, listed>>
       ELSE \E out \in ListOutputs :
            LET r == OutputMentions(out, current_package[1]) IN
            /\ cmds' = Append(cmds, Cmd("list", <<>>, r))
            /\ listed' = r
            /\ IF state = "latest" /\ r
               THEN pc' = "check_outdated" /\ UNCHANGED <<status, outcomes>>
               ELSE IF r THEN EndUnchanged ELSE NeedsChange
    /\ UNCHANGED <<probe, inputs, mas_path, current_package, idx, rc, err, result,
                   hist, seen>>

\* `and not self._current_package_is_outdated()` of the first gate
CheckOutdated ==
    /\ pc = "check_outdated"
    /\ IF ~valid_package(current_package)
       THEN EndUnchanged /\ UNCHANGED cmds
       ELSE \E out \in Outputs :
            LET r == OutputMentions(out, current_package[1]) IN
            /\ cmds' = Append(cmds, Cmd("outdated", <<>>, r))
            /\ IF r THEN NeedsChange ELSE EndUnchanged
    /\ UNCHANGED <<probe, inputs, mas_path, current_package, idx, locals, result,
                   hist, seen>>

\* variant: exit code 0 of the install is taken as success, no re-query
Install_TrustsExitCode ==
    /\ pc = "install"
    /\ cmds' = Append(cmds, Cmd("install",
                   SelectSeq(<<current_package>>, Truthy), FALSE))
    /\ \E r \in {0, 1}, e \in ErrTexts :
         /\ rc' = r
         /\ err' = e
         /\ IF r = 0
            THEN EndChanged
            ELSE pc' = "verify" /\ UNCHANGED <<status, outcomes>>
    /\ UNCHANGED <<probe, inputs, mas_path, current_package, idx, listed,
                   result, hist, seen>>

\* opts = [mas_path, 'install'] + [current_package]; falsy opts are dropped
Install ==
    /\ pc = "install"
    /\ \E r \in {0, 1}, e \in ErrTexts :
         /\ rc' = r
         /\ err' = e
    /\ cmds' = Append(cmds, Cmd("install",
                   SelectSeq(<<current_package>>, Truthy), FALSE))
    /\ pc' = "verify"
    /\ UNCHANGED <<probe, inputs, mas_path, current_package, status, idx, listed,
                   outcomes, result, hist, seen>>

\* variant: a non-zero exit code of the install counts as failure
VerifyInstalled_TrustsExitCode ==
    /\ pc = "verify"
    /\ IF ~valid_package(current_package) \/ current_package = None
       THEN RaiseInvalid /\ UNCHANGED <<cmds, listed>>
       ELSE \E out \in ListOutputs :
            LET r == OutputMentions(out, current_package[1]) IN
            /\ cmds' = Append(cmds, Cmd("list", <<>>, r))
            /\ listed' = r
            /\ IF state = "latest" /\ r /\ rc = 0
               THEN pc' = "verify_outdated" /\ UNCHANGED <<status, outcomes>>
               ELSE IF r /\ rc = 0 THEN EndChanged ELSE EndFailed
    /\ UNCHANGED <<probe, inputs, mas_path, current_package, idx, rc, err, result,
                   hist, seen>>

\* _current_package_is_installed() after the install
VerifyInstalled ==
    /\ pc = "verify"
    /\ IF ~valid_package(current_package) \/ current_package = None
       THEN RaiseInvalid /\ UNCHANGED <<cmds, listed>>
       ELSE \E out \in ListOutputs :
            LET r == OutputMentions(out, current_package[1]) IN
            /\ cmds' = Append(cmds, Cmd("list", <<>>, r))
            /\ listed' = r
            /\ IF state = "latest" /\ r
               THEN pc' = "verify_outdated" /\ UNCHANGED <<status, outcomes>>
               ELSE IF r THEN EndChanged ELSE EndFailed
    /\ UNCHANGED <<probe, inputs, mas_path, current_package, idx, rc, err, result,
                   hist, seen>>

\* `and not self._current_package_is_outdated()` after the install
VerifyOutdated ==
    /\ pc = "verify_outdated"
    /\ IF ~valid_package(current_package)
       THEN EndChanged /\ UNCHANGED cmds
       ELSE \E out \in Outputs :
            LET r == OutputMentions(out, current_package[1]) IN
            /\ cmds' = Append(cmds, Cmd("outdated", <<>>, r))
            /\ IF r THEN EndFailed ELSE EndChanged
    /\ UNCHANGED <<probe, inputs, mas_path, current_package, idx, locals, result,
                   hist, seen>>

\* run() after _run(): the summary message and the returned triple
Finish ==
    /\ pc = "finish"
    /\ message' = IF AggregateApplies(failed, changed_count, unchanged_count)
                  THEN MsgAggregate(changed_count, unchanged_count)
                  ELSE message
    /\ result' = Some([failed |-> failed, changed |-> changed,
                       message |-> message'])
    /\ pc' = "done"
    /\ UNCHANGED <<probe, inputs, mas_path, current_package, failed, changed,
                   changed_count, unchanged_count, idx, locals, cmds,
                   outcomes, hist, seen>>

\* main() entered again with the same arguments: a new engine, the same host
Reinvoke ==
    /\ pc = "done"
    /\ inv < MaxRuns
    /\ inv' = inv + 1
    /\ prev' = result
    /\ failed' = SetupStatusVars.failed
    /\ changed' = SetupStatusVars.changed
    /\ changed_count' = SetupStatusVars.changed_count
    /\ unchanged_count' = SetupStatusVars.unchanged_count
    /\ message' = SetupStatusVars.message
    /\ mas_path' = None /\ current_package' = None
    /\ pc' = "prep" /\ idx' = 0
    /\ listed' = FALSE /\ rc' = 0 /\ err' = <<>>
    /\ outcomes' = <<>> /\ result' = None
    /\ UNCHANGED probe
    /\ UNCHANGED <<probe, inputs, cmds, seen>>

Next ==
    \/ PrepMasPath
    \/ Run
    \/ NextPackage
    \/ CheckInstalled
    \/ CheckOutdated
    \/ Install
    \/ VerifyInstalled
    \/ VerifyOutdated
    \/ Finish

Spec == Init /\ [][Next]_vars

NextIdem == Next \/ Reinvoke

\* the same start, with short batches and the host's list held fixed
InitIdem ==
    /\ packages \in Batches /\ Len(packages) <= MaxIdemBatch
    /\ state \in {"present", "latest"}
    /\ check_mode \in BOOLEAN
    /\ Fresh
    /\ cmds = <<>>
    /\ inv = 1 /\ prev = None
    /\ fake_list \in {Some(out) : out \in Outputs}

SpecIdem == InitIdem /\ [][NextIdem]_vars

\* Mas.valid_package called on its own with any argument
ValidArgs == {None} \cup {Some(a) : a \in AllStrings(ArgChars, MaxArgLen)}

InitValid ==
    /\ packages = << <<"1">> >> /\ state = "present" /\ check_mode = FALSE
    /\ failed = SetupStatusVars.failed
    /\ changed = SetupStatusVars.changed
    /\ changed_count = SetupStatusVars.changed_count
    /\ unchanged_count = SetupStatusVars.unchanged_count
    /\ message = SetupStatusVars.message
    /\ mas_path = None /\ current_package = None
    /\ pc = "valid_package" /\ idx = 0
    /\ listed = FALSE /\ rc = 0 /\ err = <<>>
    /\ outcomes = <<>> /\ result = None
    /\ cmds = <<>>
    /\ inv = 1 /\ prev = None
    /\ fake_list = None
    /\ arg \in ValidArgs /\ ret = None

ValidPackage ==
    /\ pc = "valid_package"
    /\ ret = None
    /\ ret' = Some(valid_package(arg))
    /\ UNCHANGED <<arg, inputs, mas_path, current_package, status, pc, idx,
                   locals, cmds, outcomes, result, hist, seen>>

NextValid == ValidPackage

SpecValid == InitValid /\ [][NextValid]_vars

\* ------------------------------------------------------------ properties
CmdIdx       == 1..Len(cmds)
LastOutcome  == outcomes[Len(outcomes)]
Returned     == pc = "done" /\ result # None
IsNumeric(p) == \A k \in 1..Len(p) : p[k] \in DigitChars
\* the commands of this invocation issued for batch position k, in order
CmdsAt(k)    == SelectSeq(cmds, LAMBDA c : c.pos = k /\ c.inv = inv)
HasInstall(k) == \E j \in CmdIdx :
                    cmds[j].cmd = "install" /\ cmds[j].pos = k /\ cmds[j].inv = inv
NumOutcome(o) == Cardinality({k \in 1..Len(outcomes) : outcomes[k] = o})

\* C1: in dry-run (check) mode no `install` command is ever issued,
\* whatever the batch, the desired state and the list/outdated output.
C1_DryRunNeverInstalls ==
    check_mode => \A j \in CmdIdx : cmds[j].cmd # "install"

C1_Witness ==
    /\ check_mode /\ Returned
    /\ Len(outcomes) > 0 /\ LastOutcome = "WouldChange"
    /\ cmds # <<>>

\* C2: a dry-run batch that reaches a package needing a change returns
\* failed=false, changed=true and the message `Package would be installed:
\* {id}` / `Package would be upgraded: {id}` naming that package, for every
\* batch length and every position of the package.
C2_DryRunTriple ==
    (Returned /\ check_mode /\ Len(outcomes) > 0 /\ LastOutcome = "WouldChange")
    => /\ result[1].failed = FALSE
       /\ result[1].changed = TRUE
       /\ result[1].message =
              IF state = "present" THEN MsgWouldInstall(packages[idx])
                                   ELSE MsgWouldUpgrade(packages[idx])

\* C3: the batch stops at the first package that ends Fatal or signals the
\* dry-run would-change: no command is issued for any later package, and
\* after a failed verification the result is failed=true with the trimmed
\* stderr of that package's install.
C3_BatchShortCircuit ==
    /\ \A k \in 1..Len(outcomes) :
          outcomes[k] \in {"Fatal", "WouldChange"}
          => /\ k = Len(outcomes)
             /\ idx = k
             /\ pc \in {"finish", "done"}
             /\ \A j \in CmdIdx : cmds[j].pos <= k
    /\ (Returned /\ Len(outcomes) > 0 /\ LastOutcome = "Fatal" /\ HasInstall(idx))
       => /\ result[1].failed = TRUE
          /\ result[1].message = Strip(err)

C3_Witness ==
    /\ Returned /\ Len(packages) = 2
    /\ outcomes = <<"Fatal">> /\ HasInstall(1)
    /\ result[1].message = <<"e">>

\* C4: once `failed` is true it stays true and changed_count and
\* unchanged_count keep their values in every later step of the engine.
C4_FailedFreezes ==
    [][failed => /\ failed'
                 /\ changed_count' = changed_count
                 /\ unchanged_count' = unchanged_count]_vars

C4_Witness ==
    /\ Returned /\ failed
    /\ changed_count = 1 /\ unchanged_count = 1
    /\ idx = Len(outcomes) /\ LastOutcome = "Fatal"

C6_PresentMessage(p, o) ==
    CASE o = "UnchangedOK" -> <<"Package already installed: ">> \o p
      [] o = "ChangedOK"   -> <<"Package installed: ">> \o p
      [] o = "WouldChange" -> <<"Package would be installed: ">> \o p
      [] o = "Fatal"       -> IF IsNumeric(p) THEN Strip(err)
                              ELSE <<"Invalid package: ">> \o p \o <<".">>

\* C6: when exactly one package was processed, run() returns the message
\* the reconciler step set for that package; the aggregation step leaves
\* it as it is.
C6_SingleMessageKept ==
    /\ []((Returned /\ Len(outcomes) = 1 /\ state = "present")
            => result[1].message = C6_PresentMessage(packages[1], outcomes[1]))
    /\ [][(pc = "finish" /\ Len(outcomes) = 1)
            => (message' = message /\ result'[1].message = message)]_vars

C6_Witness ==
    /\ Returned /\ Len(packages) = 1 /\ state = "present"
    /\ outcomes = <<"UnchangedOK">>
    /\ result[1].message = <<"Package already installed: ", "1", "1">>

\* list reported installed and outdated did not report, at commands j, j+1
C7_GateAt(cs, j) ==
    /\ Len(cs) >= j + 1
    /\ cs[j].cmd = "list" /\ cs[j].hit
    /\ cs[j + 1].cmd = "outdated" /\ ~cs[j + 1].hit

\* C7: under `latest` a package is already satisfied only if list reports
\* it AND outdated does not; installed but outdated goes on to the install
\* (outside dry-run); after the install the outcome is ChangedOK only if
\* installed AND not outdated, otherwise Fatal.
C7_UpgradeGate ==
    state = "latest" =>
    \A k \in 1..Len(outcomes) :
       IsNumeric(packages[k]) =>
       LET cs  == CmdsAt(k)
           ins == {j \in 1..Len(cs) : cs[j].cmd = "install"}
       IN /\ (outcomes[k] = "UnchangedOK") <=> C7_GateAt(cs, 1)
          /\ (cs[1].hit /\ Len(cs) >= 2 /\ cs[2].hit /\ ~check_mode)
             => (Len(cs) >= 3 /\ cs[3].cmd = "install")
          /\ (~C7_GateAt(cs, 1) /\ ~check_mode) => ins # {}
          /\ check_mode => ins = {}
          /\ \A j \in ins :
                /\ (outcomes[k] = "ChangedOK") <=> C7_GateAt(cs, j + 1)
                /\ (outcomes[k] = "Fatal") <=> ~C7_GateAt(cs, j + 1)

C7_Witness ==
    /\ Returned /\ state = "latest" /\ ~check_mode
    /\ outcomes[1] = "ChangedOK"
    /\ Len(CmdsAt(1)) = 5
    /\ CmdsAt(1)[1].hit /\ CmdsAt(1)[2].hit /\ CmdsAt(1)[3].cmd = "install"

\* `mas list` was run in invocation n
C8_Listed(n) == \E j \in CmdIdx : cmds[j].cmd = "list" /\ cmds[j].inv = n

\* C8: reconciling the same already-installed package to `present` twice
\* in a row against one unchanging list output issues no install, gives
\* changed=false on the second call and the message `Package already
\* installed: {id}` both times.
C8_Idempotent ==
    (/\ Returned /\ inv = 2 /\ prev # None
     /\ state = "present" /\ Len(packages) = 1
     /\ C8_Listed(1) /\ C8_Listed(2)
     /\ fake_list # None
     /\ \A j \in CmdIdx : cmds[j].cmd = "list" => cmds[j].hit)
    => /\ \A j \in CmdIdx : cmds[j].cmd # "install"
       /\ result[1].changed = FALSE
       /\ result[1].message = <<"Package already installed: ">> \o packages[1]
       /\ prev[1].message = <<"Package already installed: ">> \o packages[1]

C8_Witness ==
    /\ Returned /\ inv = 2 /\ prev # None
    /\ state = "present" /\ packages = << <<"1">> >>
    /\ fake_list = Some(<<"1", "1">>)
    /\ Len(cmds) = 2 /\ cmds[1].hit /\ cmds[2].hit /\ cmds[2].inv = 2
    /\ result[1].changed = FALSE

\* C9: under `present` the re-query after the install alone decides the
\* outcome: found => changed_count + 1, changed=true, `Package installed:
\* {id}`; not found => failed=true and the message is the install's stderr
\* without surrounding whitespace; the exit code plays no part.
C9_RequeryDecides ==
    [][(pc = "verify" /\ state = "present" /\ pc' # "verify")
        => LET q == cmds'[Len(cmds')] IN
           /\ Len(cmds') = Len(cmds) + 1
           /\ q.cmd = "list"
           /\ IF q.hit
              THEN /\ outcomes'[Len(outcomes')] = "ChangedOK"
                   /\ changed_count' = changed_count + 1
                   /\ changed' = TRUE
                   /\ failed' = failed
                   /\ message' = <<"Package installed: ">> \o current_package[1]
              ELSE /\ outcomes'[Len(outcomes')] = "Fatal"
                   /\ failed' = TRUE
                   /\ changed_count' = changed_count
                   /\ message' = Strip(err)]_vars

C9_Witness ==
    /\ state = "present" /\ pc = "loop" /\ idx = Len(outcomes) /\ idx > 0
    /\ LastOutcome = "ChangedOK" /\ HasInstall(idx)
    /\ rc = 1 /\ err = <<" ", "e">>
    /\ message = <<"Package installed: ">> \o packages[idx]

\* C10: an invalid identifier at any position ends the run Fatal with
\* failed=true and `Invalid package: {id}.`; no command is issued for it or
\* for a later package and the counts are those of the earlier packages.
C10_InvalidPackage ==
    \A k \in 1..idx :
       ~IsNumeric(packages[k])
       => /\ k = idx /\ Len(outcomes) = k /\ outcomes[k] = "Fatal"
          /\ pc \in {"finish", "done"}
          /\ failed = TRUE
          /\ message = <<"Invalid package: ">> \o packages[k] \o <<".">>
          /\ \A j \in CmdIdx : cmds[j].pos < k
          /\ changed_count = NumOutcome("ChangedOK")
          /\ unchanged_count = NumOutcome("UnchangedOK")
          /\ Returned => /\ result[1].failed = TRUE
                          /\ result[1].message = message

C10_Witness ==
    /\ Returned /\ Len(packages) = 3 /\ ~IsNumeric(packages[3])
    /\ outcomes = <<"ChangedOK", "UnchangedOK", "Fatal">>
    /\ changed_count = 1 /\ unchanged_count = 1
    /\ result[1].message = <<"Invalid package: ", "1", "a", ".">>

\* the path whitelist: word characters, whitespace, separator, dot, dash
C11_Whitelisted(p) ==
    \A k \in 1..Len(p) : p[k] \in WordChars \cup SpaceChars \cup {"/", ".", "-"}

\* C11: when the executable is not found, or its path has a character
\* outside the whitelist, construction fails with failed=true and a
\* descriptive message, the exception leaves the constructor, and no
\* package is processed: no list, outdated or install command is issued.
C11_ConstructionFails ==
    /\ [](pc = "raised"
          => /\ failed = TRUE
             /\ mas_path = None
             /\ \/ message = <<"Unable to locate mas executable.">>
                \/ /\ message[1] = "Invalid mas_path: "
                   /\ ~C11_Whitelisted(SubSeq(message, 2, Len(message) - 1))
             /\ idx = 0 /\ outcomes = <<>> /\ result = None
             /\ \A j \in CmdIdx : cmds[j].inv # inv)
    /\ [][pc = "prep"
          => /\ pc' \in {"run", "raised"}
             /\ pc' = "run" => /\ mas_path' # None
                               /\ mas_path'[1] # <<>>
                               /\ C11_Whitelisted(mas_path'[1])
                               /\ failed' = FALSE]_vars
    /\ [][pc = "raised" => pc' = "raised"]_vars

C11_Witness ==
    /\ pc = "raised" /\ failed
    /\ message = <<"Invalid mas_path: ", "/", "m", ";", ".">>
    /\ cmds = <<>>

\* C12: valid_package is true for every string of decimal digits only,
\* false for every string with at least one other character, and true for
\* None.
C12_ValidPackage ==
    ret # None
    => /\ arg = None => ret[1] = TRUE
       /\ arg # None
          => (ret[1] <=> \A k \in 1..Len(arg[1]) :
                            arg[1][k] \in {"0", "1", "2", "3", "4",
                                           "5", "6", "7", "8", "9"})

C12_Witness ==
    /\ arg = Some(<<"7", "a", "0">>)
    /\ ret = Some(FALSE)

\* the install at command j was re-queried and found in the desired state
C13_VerifiedAfter(j) ==
    /\ j + 1 <= Len(cmds)
    /\ cmds[j + 1].cmd = "list" /\ cmds[j + 1].hit
    /\ state = "latest"
       => /\ j + 2 <= Len(cmds)
          /\ cmds[j + 2].cmd = "outdated" /\ ~cmds[j + 2].hit

\* C13: every install is followed, before any other install and before
\* run() returns, by a list query for the same package (and, under latest
\* when list reports it, an outdated query); changed_count only grows for
\* a package whose install was followed by a successful re-query.
C13_ReVerification ==
    /\ \A j \in CmdIdx :
          cmds[j].cmd = "install"
          => /\ j = Len(cmds) => pc = "verify"
             /\ j < Len(cmds)
                => /\ cmds[j + 1].cmd = "list"
                   /\ cmds[j + 1].pos = cmds[j].pos
                   /\ cmds[j + 1].inv = cmds[j].inv
             /\ (j < Len(cmds) /\ state = "latest" /\ cmds[j + 1].hit)
                => /\ j + 1 = Len(cmds) => pc = "verify_outdated"
                   /\ j + 1 < Len(cmds)
                      => /\ cmds[j + 2].cmd = "outdated"
                         /\ cmds[j + 2].pos = cmds[j].pos
                         /\ cmds[j + 2].inv = cmds[j].inv
    /\ \A k \in 1..Len(outcomes) :
          outcomes[k] = "ChangedOK"
          => \E j \in CmdIdx : /\ cmds[j].cmd = "install"
                               /\ cmds[j].pos = k /\ cmds[j].inv = inv
                               /\ C13_VerifiedAfter(j)
    /\ changed_count = NumOutcome("ChangedOK")

C13_Witness ==
    /\ Returned /\ state = "present"
    /\ outcomes = <<"ChangedOK", "ChangedOK">>
    /\ Len(cmds) = 6
    /\ cmds[2].cmd = "install" /\ cmds[3].hit
    /\ cmds[5].cmd = "install" /\ cmds[6].hit

\* C14: under `present` an install is issued only when the list query made
\* just before it for the same package did not report the package; when it
\* does report it the step ends UnchangedOK with unchanged_count + 1,
\* changed and changed_count untouched, and no install.
C14_NoUnneededInstall ==
    /\ [](state = "present"
          => /\ \A j \in CmdIdx :
                   cmds[j].cmd = "install"
                   => /\ j > 1
                      /\ cmds[j - 1].cmd = "list" /\ ~cmds[j - 1].hit
                      /\ cmds[j - 1].pos = cmds[j].pos
                      /\ cmds[j - 1].inv = cmds[j].inv
             /\ \A k \in 1..Len(outcomes) :
                   outcomes[k] = "UnchangedOK"
                   => /\ Len(CmdsAt(k)) = 1
                      /\ CmdsAt(k)[1].cmd = "list" /\ CmdsAt(k)[1].hit)
    /\ [][(/\ pc = "check" /\ state = "present"
           /\ Len(cmds') = Len(cmds) + 1 /\ cmds'[Len(cmds')].hit)
          => /\ cmds'[Len(cmds')].cmd = "list"
             /\ outcomes' = Append(outcomes, "UnchangedOK")
             /\ unchanged_count' = unchanged_count + 1
             /\ changed' = changed
             /\ changed_count' = changed_count
             /\ failed' = failed
             /\ pc' = "loop"]_vars

C14_Witness ==
    /\ state = "present" /\ pc = "loop"
    /\ outcomes = <<"ChangedOK", "UnchangedOK">>
    /\ changed_count = 1 /\ unchanged_count = 1 /\ changed
    /\ Len(CmdsAt(2)) = 1 /\ CmdsAt(2)[1].hit

\* the install commands of this invocation, all or those of position k
C15_Installs == {j \in CmdIdx : cmds[j].cmd = "install" /\ cmds[j].inv = inv}
C15_InstallsAt(k) == {j \in C15_Installs : cmds[j].pos = k}

\* C15: within one run() at most one install is issued per batch entry, so
\* the installs never outnumber the packages, and after a failed
\* re-verification no further command is issued.
C15_NoRetry ==
    /\ [](/\ \A k \in 1..Len(packages) : Cardinality(C15_InstallsAt(k)) <= 1
          /\ \A j \in C15_Installs : cmds[j].pos \in 1..Len(packages)
          /\ Cardinality(C15_Installs) <= Len(packages)
          /\ failed => pc \in {"raised", "finish", "done"})
    /\ [][failed => cmds' = cmds]_vars

C15_Witness ==
    /\ Returned /\ failed /\ outcomes = <<"ChangedOK", "Fatal">>
    /\ Cardinality(C15_Installs) = 2
    /\ Cardinality(C15_InstallsAt(2)) = 1
    /\ cmds[Len(cmds)].cmd = "list" /\ ~cmds[Len(cmds)].hit

\* C16: packages are handled one after the other in batch order: every
\* command for the package at position i comes before every command for
\* the package at position i+1, each command is issued for the package at
\* its position, and a step issues at most one command.
C16_Sequential ==
    /\ [](/\ \A i, j \in CmdIdx :
                (i < j /\ cmds[i].inv = cmds[j].inv) => cmds[i].pos <= cmds[j].pos
          /\ \A j \in CmdIdx :
                /\ cmds[j].pos \in 1..Len(packages)
                /\ IsNumeric(packages[cmds[j].pos])
                /\ cmds[j].cmd = "install"
                   => cmds[j].args = IF packages[cmds[j].pos] = <<>> THEN <<>>
                                     ELSE <<Some(packages[cmds[j].pos])>>
          /\ pc \in {"check", "check_outdated", "install", "verify",
                     "verify_outdated"}
             => current_package = Some(packages[idx]))
    /\ [][\/ cmds' = cmds
          \/ /\ Len(cmds') = Len(cmds) + 1
             /\ SubSeq(cmds', 1, Len(cmds)) = cmds
             /\ cmds'[Len(cmds')].pos = idx]_vars

C16_Witness ==
    /\ Returned /\ Len(outcomes) = 3
    /\ packages[1] # packages[2] /\ packages[2] # packages[3]
    /\ cmds[1].pos = 1 /\ cmds[Len(cmds)].pos = 3
    /\ \E j \in CmdIdx : cmds[j].pos = 2 /\ cmds[j].cmd = "install"

\* C17: under `latest` the per-package messages are the `present` ones
\* with "upgraded" for "installed": `Package already upgraded: {id}` when
\* already satisfied, `Package would be upgraded: {id}` in dry-run and
\* `Package upgraded: {id}` after a verified install.
C17_UpgradeMessages ==
    (/\ state = "latest" /\ pc \in {"loop", "finish"}
     /\ idx > 0 /\ Len(outcomes) = idx /\ IsNumeric(packages[idx]))
    => /\ LastOutcome = "UnchangedOK"
          => message = <<"Package already upgraded: ">> \o packages[idx]
       /\ LastOutcome = "WouldChange"
          => message = <<"Package would be upgraded: ">> \o packages[idx]
       /\ LastOutcome = "ChangedOK"
          => message = <<"Package upgraded: ">> \o packages[idx]

\* C18: outside dry-run `changed` is true exactly when changed_count > 0;
\* in dry-run changed_count stays 0 and `changed` is true only after a
\* would-change signal.
C18_ChangedFlag ==
    /\ ~check_mode => (changed <=> changed_count > 0)
    /\ check_mode => /\ changed_count = 0
                     /\ changed => (Len(outcomes) > 0 /\ LastOutcome = "WouldChange")

C18_Witness ==
    /\ ~check_mode /\ Returned
    /\ changed /\ changed_count = 1 /\ unchanged_count = 2

\* C19: during one run() of a fresh engine changed_count + unchanged_count
\* is the number of entries that ended ChangedOK or UnchangedOK, never
\* exceeds the batch length, and equals it exactly when run() returns with
\* failed=false and without a dry-run would-change signal.
C19_CountsMatchOutcomes ==
    /\ changed_count + unchanged_count
          = NumOutcome("ChangedOK") + NumOutcome("UnchangedOK")
    /\ changed_count + unchanged_count <= Len(packages)
    /\ Returned
       => ((changed_count + unchanged_count = Len(packages))
             <=> (~result[1].failed /\ NumOutcome("WouldChange") = 0))

C19_Witness ==
    /\ Returned /\ ~failed /\ Len(packages) = 3
    /\ changed_count = 2 /\ unchanged_count = 1
    /\ NumOutcome("WouldChange") = 0

\* C20: the empty identifier passes validation and every list output,
\* the empty one included, reports it installed; under `present` it ends
\* UnchangedOK with no install, and it is a current package like any other.
C20_EmptyIdentifier ==
    /\ \A out \in Outputs : OutputMentions(out, <<>>)
    /\ \A k \in 1..idx :
          packages[k] = <<>>
          => /\ (k = idx /\ pc \in {"check", "check_outdated", "install",
                                   "verify", "verify_outdated"})
                => current_package = Some(<<>>)
             /\ \A j \in CmdIdx :
                   (cmds[j].pos = k /\ cmds[j].inv = inv)
                   => /\ cmds[j].cmd = "list" => cmds[j].hit
                      /\ state = "present" => cmds[j].cmd = "list"
             /\ (k <= Len(outcomes) /\ state = "present")
                => /\ outcomes[k] = "UnchangedOK"
                   /\ Len(CmdsAt(k)) = 1
             /\ (k = Len(outcomes) /\ state = "present" /\ pc = "loop")
                => message = <<"Package already installed: ">>

C20_Witness ==
    /\ Returned /\ state = "present" /\ ~failed
    /\ packages = << <<"1">>, <<>> >>
    /\ outcomes = <<"ChangedOK", "UnchangedOK">>
    /\ Len(CmdsAt(2)) = 1 /\ CmdsAt(2)[1].hit
====
